---- MODULE Spec2Model ----
(***************************************************************************)
(* Order lifecycle and cycle-continuation engine of the scalper backend.   *)
(*                                                                         *)
(* The model follows the code of                                           *)
(*   app/api/v1/endpoints/websocket.py   (ConnectionManager: event router) *)
(*   app/services/order_monitor.py       (fill processing, continuation,   *)
(*                                        cycle settlement, PnL)           *)
(*   app/services/order_service.py       (order placement, status update)  *)
(*   app/api/v1/endpoints/bots.py        (update / stop / delete flows)    *)
(*   app/services/trading/trading_service.py (polling loop fill timeout)   *)
(*                                                                         *)
(* Every database session is modelled by the objects it has loaded (a      *)
(* snapshot taken at the SELECT) and by the attribute changes it holds;    *)
(* flush() keeps the changes inside the session, commit() writes the       *)
(* changed columns to the committed store that other sessions read.        *)
(* Every await on the database or on the exchange is a scheduling point.   *)
(* The database is PostgreSQL (core/config.py 30): an UPDATE that a session *)
(* has flushed holds the row until that session commits or is closed, and  *)
(* an UPDATE of the same row by another session waits for it.              *)
(* Prices are integers, 0 standing for "no price reported" (Python's       *)
(* falsy None / 0.0).  The exchange order id and the row id of an order    *)
(* are the same number.                                                    *)
(***************************************************************************)
EXTENDS Integers, FiniteSets, Sequences, TLC

\* ---------------------------------------------------------------- bounds
MaxOrders == 4      \* orders ever accepted by the exchange
MaxTasks == 2       \* background tasks alive at the same time
MaxNotifs == 2      \* notifications that create a background task
MaxFlows == 1       \* request flows (update/stop/delete/poll timeout) started
MaxBatch == 2       \* notifications about one order compared in two delivery orders
MaxClients == 2     \* UI clients of the bridge
MaxSessions == 3    \* websocket sessions the UI clients open
MaxDisconnects == 2 \* disconnect_coindcx tasks created

\* ------------------------------------------------- configuration values
Qty == 2            \* bot.quantity of the modelled bot
PartQty == 1        \* filled quantity reported by a partial fill
BuyPrice == 10      \* bot.buy_price of the modelled bot
SellPrice == 12     \* bot.sell_price of the modelled bot
Slip == 1           \* price improvement the exchange may give on a fill
BotLeverage == 3    \* bot.leverage of the modelled bot
PosLeverage == 5    \* leverage of a position opened outside the engine

\* order_service.py 70: the leverage of a bot that has none configured
DefaultLeverage == 3

OrderIds == 1..MaxOrders
TaskIds == 1..MaxTasks

SystemReasons == {"UPDATE", "STOP", "DELETE"}
TerminalStatuses == {"FILLED", "CANCELLED", "REJECTED", "EXPIRED", "FAILED"}

VARIABLES
    bridge,       \* the websocket bridge: UI clients, exchange stream, its tasks
    dbBot,        \* committed row of the bot
    dbOrders,     \* committed rows of the orders table, by id
    exOrders,     \* the exchange's own book: status, side, price, fill price
    oppOf,        \* history: the filled order a placed order is the opposite of
    botAtSubmit,  \* history: committed bot status when the exchange took the order
    cancelSeen,   \* history: committed reason when cancel_order was issued
    cancelBy,     \* history: the flow that issued the exchange cancel
    placeFailed,  \* history: filled orders whose opposite placement raised
    tasks,        \* background tasks created by handle_order_update
    flow,         \* the request flow in progress
    locks,        \* keys of _processing_locks
    lockHolder,   \* owner of each per-order lock, 0 when free
    notifs,       \* background tasks created so far
    nflows,       \* request flows started so far
    position,     \* leverage of the open position the exchange reports, 0: none
    seen,         \* history: the kinds of complete-fill report classified, by order
    escaped,      \* exceptions that reached the caller of the handler or of a task
    levSent       \* history: the leverage of the order requests sent since Init

vars == <<dbBot, dbOrders, exOrders, oppOf, botAtSubmit,
          cancelSeen, cancelBy, placeFailed, tasks, flow, locks, lockHolder,
          notifs, nflows, position, seen, levSent, escaped, bridge>>

history == <<oppOf, botAtSubmit, cancelSeen, cancelBy, placeFailed, seen,
             levSent>>

\* ------------------------------------------------------------ data model
NoOrder ==
    [exists |-> FALSE, side |-> "BUY", status |-> "PENDING", reason |-> "NONE",
     price |-> 0, quantity |-> 0, filled_quantity |-> 0, filled_price |-> 0,
     commission |-> 0, paired |-> 0]

NewOrder(side, price, quantity, paired) ==
    [exists |-> TRUE, side |-> side, status |-> "PENDING", reason |-> "NONE",
     price |-> price, quantity |-> quantity, filled_quantity |-> 0,
     filled_price |-> 0, commission |-> 0, paired |-> paired]

NoBot ==
    [exists |-> FALSE, status |-> "STOPPED", first_order |-> "BUY",
     infinite_loop |-> FALSE, buy_price |-> 0, sell_price |-> 0,
     quantity |-> 0, leverage |-> 0, pnl |-> 0, total_trades |-> 0]

NoExOrder == [status |-> "none", side |-> "BUY", price |-> 0, fill_price |-> 0]

IdleTask ==
    [kind |-> "idle", pc |-> "idle", oid |-> 0, fq |-> 0, tq |-> 0,
     price |-> 0, ord |-> NoOrder, bot |-> NoBot, newo |-> 0, rows |-> {}]

IdleFlow ==
    [kind |-> "idle", pc |-> "idle", todo |-> {}, touched |-> {}, newo |-> 0,
     bot |-> NoBot]

\* the side kept as it is
SameSide(side) == side

\* order_monitor.py 183-189: the side of the opposite order
OppositeSide(side) == IF side = "BUY" THEN "SELL" ELSE "BUY"

\* the price a bot asks for an order of the given side
SidePrice(bot, side) == IF side = "BUY" THEN bot.buy_price ELSE bot.sell_price

\* Python's "a or b" on prices and quantities: 0 / None is falsy
OrElse(a, b) == IF a # 0 THEN a ELSE b

SetMin(S) == CHOOSE x \in S : \A y \in S : x <= y
SetMax(S) == CHOOSE x \in S : \A y \in S : x >= y

\* the next exchange order id; MaxOrders + 1 when the bound is exhausted
NextId == Cardinality({o \in OrderIds : exOrders[o].status # "none"}) + 1

FreeSlots == {t \in TaskIds : tasks[t].kind = "idle"}

\* the row id of the bot among the rows a transaction has written; an order's
\* row id is its order id
BotRow == MaxOrders + 1

\* no open transaction has flushed an UPDATE of row r
RowFree(r) ==
    /\ \A t \in TaskIds : r \notin tasks[t].rows
    /\ r \notin flow.touched

\* task t's session can write row r without waiting
RowFreeFor(t, r) == r \in tasks[t].rows \/ RowFree(r)

\* the request flow's session can write row r without waiting
RowFreeForFlow(r) == \A t \in TaskIds : r \notin tasks[t].rows

\* ------------------------------------------------------------ the bridge
ClientIds == 1..MaxClients
StreamIds == 1..MaxSessions
DisconnectIds == 1..MaxDisconnects

\* websocket.py 29-32: ConnectionManager.__init__, with the position of every
\* UI client's endpoint coroutine (pc, and the CoinDCXFutures object cs its
\* connect_coindcx waits on), the disconnect_coindcx tasks created, and the
\* exchange's side: the streams that are connected (up)
NewBridge ==
    [active_connections |-> {}, coindcx_client |-> 0,
     coindcx_connected |-> FALSE, up |-> {},
     pc |-> [c \in ClientIds |-> "out"], cs |-> [c \in ClientIds |-> 0],
     disc |-> [d \in DisconnectIds |-> [pc |-> "none", s |-> 0]],
     sessions |-> 0, streams |-> 0, failed |-> FALSE]

\* websocket.py 34-42 and 53-96: the bridge once the first UI client has
\* connected and connect_coindcx has succeeded
BridgeUp ==
    [NewBridge EXCEPT !.active_connections = {1}, !.coindcx_client = 1,
                      !.coindcx_connected = TRUE, !.up = {1},
                      !.pc[1] = "in", !.sessions = 1, !.streams = 1]

\* ---------------------------------------------------------- initial state
\* The state create_bot leaves behind: an ACTIVE bot whose first order is
\* committed as PENDING and is open on the exchange.
InitBot(first, loop) ==
    [exists |-> TRUE, status |-> "ACTIVE", first_order |-> first,
     infinite_loop |-> loop, buy_price |-> BuyPrice, sell_price |-> SellPrice,
     quantity |-> Qty, leverage |-> BotLeverage, pnl |-> 0, total_trades |-> 0]

\* order_service.py 67-71 (and bots.py 115, 361): the leverage of an order
\* request; 0 stands for None
ResolveLeverage(leverage, bot) ==
    IF leverage = 0 THEN OrElse(bot.leverage, DefaultLeverage) ELSE leverage

\* the trading state after create_bot for the given bot, with the exchange
\* reporting a position of leverage pos for the ticker (0: no position)
InitTrading(bot, pos) ==
    /\ dbBot = bot
    /\ dbOrders = [o \in OrderIds |->
                     IF o = 1
                     THEN NewOrder(bot.first_order,
                                   SidePrice(bot, bot.first_order), bot.quantity, 0)
                     ELSE NoOrder]
    /\ exOrders = [o \in OrderIds |->
                     IF o = 1 THEN [status |-> "open", side |-> bot.first_order,
                                    price |-> SidePrice(bot, bot.first_order),
                                    fill_price |-> 0]
                     ELSE NoExOrder]
    /\ oppOf = [o \in OrderIds |-> 0]
    /\ botAtSubmit = [o \in OrderIds |-> "NONE"]
    /\ cancelSeen = [o \in OrderIds |-> "NOCALL"]
    /\ cancelBy = [o \in OrderIds |-> "NONE"]
    /\ placeFailed = {}
    /\ tasks = [t \in TaskIds |-> IdleTask]
    /\ flow = IdleFlow
    /\ locks = {}
    /\ lockHolder = [o \in OrderIds |-> 0]
    /\ notifs = 0
    /\ nflows = 0
    /\ position = pos
    /\ seen = [o \in OrderIds |-> {}]
    /\ levSent = {}
    /\ escaped = {}

\* the trading state after create_bot, behind a bridge whose stream is up
InitState(bot, pos) ==
    /\ InitTrading(bot, pos)
    /\ bridge = BridgeUp

InitWith(first, loop) == InitState(InitBot(first, loop), 0)

Init == \E first \in {"BUY", "SELL"} : InitWith(first, FALSE)

\* ------------------------------------------------------------ the exchange
\* prices at which the exchange may fill a limit order: the limit price or
\* a better one
FillPrices(side, price) ==
    IF side = "BUY" THEN {price, price - Slip} ELSE {price, price + Slip}

\* the exchange accepts a new order and opens it under the next order id
ExchangeAccept(n, side, price, trigger) ==
    /\ exOrders' = [exOrders EXCEPT ![n] =
                       [status |-> "open", side |-> side, price |-> price,
                        fill_price |-> 0]]
    /\ oppOf' = [oppOf EXCEPT ![n] = trigger]
    /\ botAtSubmit' = [botAtSubmit EXCEPT ![n] =
                          IF dbBot.exists THEN dbBot.status ELSE "DELETED"]

\* an open order is matched completely
ExchangeFill(o, p) ==
    /\ exOrders[o].status = "open"
    /\ p \in FillPrices(exOrders[o].side, exOrders[o].price)
    /\ exOrders' = [exOrders EXCEPT ![o].status = "filled", ![o].fill_price = p]
    /\ UNCHANGED <<escaped, position, bridge, dbBot, dbOrders, history, tasks, flow, locks, lockHolder,
                   notifs, nflows>>

\* the fill price is the limit price
ExchangeFillAtLimit(o) == ExchangeFill(o, exOrders[o].price)

\* the fill price is better than the limit price
ExchangeFillBetter(o) ==
    ExchangeFill(o, IF exOrders[o].side = "BUY" THEN exOrders[o].price - Slip
                    ELSE exOrders[o].price + Slip)

\* an operator cancels an open order on the exchange itself
ExchangeManualCancel(o) ==
    /\ exOrders[o].status = "open"
    /\ cancelBy[o] = "NONE"
    /\ exOrders' = [exOrders EXCEPT ![o].status = "cancelled"]
    /\ cancelBy' = [cancelBy EXCEPT ![o] = "MANUAL"]
    /\ UNCHANGED <<escaped, position, bridge, seen, levSent, dbBot, dbOrders, oppOf, botAtSubmit, cancelSeen,
                   placeFailed, tasks, flow, locks, lockHolder, notifs, nflows>>

\* ------------------------------------------------------------ exceptions
\* The functions whose "except Exception" clause encloses a point where the
\* router's code can raise and does not re-raise: order_monitor.py 202
\* (place_opposite_order), 160 (process_order_fill), websocket.py 315
\* (_process_filled_order), 452 (_process_cancelled_order), 262
\* (handle_order_update).  order_service.py 120-122 re-raises.
HandlersNone(point) == {}

Handlers(point) ==
    CASE point = "place_order" ->
            {"place_opposite_order", "process_order_fill", "_process_filled_order"}
      [] point = "fill_commit" -> {"process_order_fill", "_process_filled_order"}
      [] point = "cancel_commit" -> {"_process_cancelled_order"}
      [] point = "broadcast" -> {"handle_order_update"}
      [] OTHER -> {}

\* an exception raised at the point reaches the caller when no clause
\* encloses the point
Escapes(point) == IF Handlers(point) = {} THEN {point} ELSE {}

\* --------------------------------------------------- notification ingestion
\* what the exchange stream may report about an order, given its own book
Reports(o) ==
    LET ex == exOrders[o] IN
    CASE ex.status = "open" ->
            {[status |-> "open", fq |-> 0, price |-> 0],
             [status |-> "partially_filled", fq |-> PartQty, price |-> 0]}
      [] ex.status = "filled" ->
            {[status |-> "filled", fq |-> f, price |-> p] :
                f \in {0, PartQty, Qty}, p \in {0, ex.fill_price}}
      [] ex.status = "cancelled" ->
            {[status |-> "cancelled", fq |-> 0, price |-> 0]}
      [] OTHER -> {}

\* the reports that carry an average price whenever they report a fill
PricedReports(o) == {r \in Reports(o) : r.status = "filled" => r.price # 0}

\* the reported quantity taken as it is
ClampFilledAsReported(fq, tq) == fq

\* websocket.py 216-220: a "filled" report with filled_quantity 0 is trusted
ClampFilled(fq, tq) == IF fq = 0 /\ tq > 0 THEN tq ELSE fq

\* the quantity test alone, whatever the reported status
IsCompleteFillAnyStatus(status, fq, tq) ==
    /\ ClampFilled(fq, tq) >= tq
    /\ tq > 0

\* websocket.py 213-223: the report is a complete fill
IsCompleteFill(status, fq, tq) ==
    /\ status = "filled"
    /\ ClampFilled(fq, tq) >= tq
    /\ tq > 0

\* the kind of a report, for the record of what was ingested: a "filled"
\* report without a quantity, a "filled" report of the whole quantity (either
\* of them "early" when the order is not stored yet), or any other report
ReportKind(r, tq, known) ==
    IF r.status = "filled" /\ (r.fq = 0 \/ r.fq >= tq)
    THEN IF ~known THEN {"early"}
         ELSE IF r.fq = 0 THEN {"zero"} ELSE {"full"}
    ELSE {"other"}

Spawn(t, kind, pc, o, fq, tq, price) ==
    tasks' = [tasks EXCEPT ![t] =
                [IdleTask EXCEPT !.kind = kind, !.pc = pc, !.oid = o,
                                 !.fq = fq, !.tq = tq, !.price = price]]

\* websocket.py 123-133, 204: how the broadcast of the event to the UI
\* clients ends: every send went through; a send raised, which broadcast
\* catches per client; or the loop over active_connections raised because a
\* client connected or disconnected during a send (the set changed size
\* during the iteration), which broadcast does not catch
BroadcastOutcomes == {"delivered", "send_failed", "raised"}

\* websocket.py 213-256: the report makes the handler create a task
CreatesTask(r, tq) == IsCompleteFill(r.status, r.fq, tq) \/ r.status = "cancelled"

\* the tasks handle_order_update waits for before it returns, had it awaited
\* the processing instead of creating a task for it
AwaitedTasksAll == TaskIds

\* websocket.py 234, 253: the tasks handle_order_update waits for before it
\* returns: asyncio.create_task is not awaited
AwaitedTasks == {}

\* ConnectionManager.handle_order_update: broadcast the event, then classify
\* the report and create the background task; an exception of the broadcast
\* leaves the try block before the classification (262).  The handler itself
\* changes no stored state.
HandleOrderUpdate(o, r, bcast) ==
    /\ notifs < MaxNotifs
    /\ r \in Reports(o)
    /\ FreeSlots # {}
    /\ \A w \in AwaitedTasks : tasks[w].kind = "idle"
    /\ IF bcast = "raised"
       THEN /\ UNCHANGED <<tasks, notifs, seen>>
            /\ escaped' = escaped \cup Escapes("broadcast")
       ELSE /\ LET t == SetMin(FreeSlots)
                   tq == Qty
               IN  IF IsCompleteFill(r.status, r.fq, tq)
                   THEN /\ Spawn(t, "fill", "f_lock", o, ClampFilled(r.fq, tq),
                                 tq, r.price)
                        /\ notifs' = notifs + 1
                   ELSE IF r.status = "cancelled"
                   THEN /\ Spawn(t, "cancel", "c_read", o, 0, 0, 0)
                        /\ notifs' = notifs + 1
                   ELSE UNCHANGED <<tasks, notifs>>
            /\ seen' = [seen EXCEPT ![o] =
                          @ \cup (ReportKind(r, Qty, dbOrders[o].exists)
                                     \ {"other"})]
            /\ UNCHANGED escaped
    /\ UNCHANGED <<position, bridge, dbBot, dbOrders, exOrders, oppOf, botAtSubmit,
                   cancelSeen, cancelBy, placeFailed, levSent, flow, locks,
                   lockHolder, nflows>>

\* ------------------------------------------------ process_order_fill (task)
\* a lookup that stores the order when it does not find it
GetOrCreateOrder(o) ==
    IF dbOrders[o].exists THEN dbOrders[o]
    ELSE NewOrder(exOrders[o].side, exOrders[o].price, Qty, 0)

\* order_service.py 125-139 (and websocket.py 357-361): the stored order with
\* the given exchange order id; a row with exists FALSE stands for None
GetOrderByExchangeId(o) == dbOrders[o]

\* a duplicate check that recognises nothing
AlreadyProcessedNever(order) == FALSE

\* order_monitor.py 81-84: the duplicate check after entering the section
AlreadyProcessed(order) == order.status = "FILLED"

\* order_service.py 162-168: update_order_status(order, FILLED, qty, price)
UpdateOrderStatus(order, new_status, filled_quantity, filled_price) ==
    [order EXCEPT !.status = new_status,
                  !.filled_quantity = filled_quantity,
                  !.filled_price = filled_price]

\* order_monitor.py 102-105: the continuation gate
BotIsActive(bot) == bot.status = "ACTIVE"

Finish(t) == tasks' = [tasks EXCEPT ![t] = IdleTask]

\* a way out of the section that keeps the lock
KeepLock(o) == UNCHANGED lockHolder

\* order_monitor.py 65: leaving "async with order_lock" releases the lock
Release(o) == lockHolder' = [lockHolder EXCEPT ![o] = 0]

\* a lock of its own for every invocation: the section is always free
LockFreeAlways(o) == TRUE

\* order_monitor.py 65: "async with order_lock" enters only a free section
LockFree(o) == lockHolder[o] = 0

\* order_monitor.py 65-93: enter the section of the order's lock from the
\* position at, read the order and mark it FILLED inside the session (flush,
\* no commit); the three early returns leave the section at once
FillEnter(t, at) ==
    LET tk == tasks[t]
        o == tk.oid
        order == GetOrderByExchangeId(o)
    IN  /\ tk.kind = "fill" /\ tk.pc = at
        /\ LockFree(o)
        /\ locks' = locks \cup {o}
        /\ IF tk.fq < tk.tq \/ ~order.exists \/ AlreadyProcessed(order)
           THEN /\ Finish(t)
                /\ UNCHANGED lockHolder
           ELSE /\ RowFree(o)
                /\ tasks' = [tasks EXCEPT ![t].pc = "f_bot",
                                 ![t].rows = {o},
                                 ![t].ord = UpdateOrderStatus(order, "FILLED",
                                                              tk.fq, tk.price)]
                /\ lockHolder' = [lockHolder EXCEPT ![o] = t]
        /\ UNCHANGED <<escaped, position, bridge, dbBot, dbOrders, exOrders, history, flow, notifs, nflows>>

\* order_monitor.py 58-93: get or create the lock and enter its section; the
\* registry's own lock is taken and released without a suspension point
FillAcquire(t) == FillEnter(t, "f_lock")

\* order_monitor.py 95-118: read the bot; a missing or inactive bot ends the
\* call without a commit, so the session's changes are dropped when it closes
FillReadBot(t) ==
    LET tk == tasks[t] IN
    /\ tk.kind = "fill" /\ tk.pc = "f_bot"
    /\ IF ~dbBot.exists \/ ~BotIsActive(dbBot)
       THEN /\ Finish(t)
            /\ Release(tk.oid)
       ELSE /\ tasks' = [tasks EXCEPT ![t].pc = "f_place", ![t].bot = dbBot]
            /\ UNCHANGED lockHolder
    /\ UNCHANGED <<escaped, position, bridge, dbBot, dbOrders, exOrders, history, flow, locks, notifs,
                   nflows>>

\* order_monitor.py 166-213 and order_service.py 63-122: place_opposite_order;
\* ok = FALSE is place_order_for_bot raising (get_exchange_for_bot with its
\* configuration error, or exchange.place_order), which place_opposite_order
\* turns into None.  The flush after a placement writes the bot's last-fill
\* columns and the new order.
FillPlace(t, ok) ==
    LET tk == tasks[t]
        side == OppositeSide(tk.ord.side)
        price == SidePrice(tk.bot, side)
        n == NextId
    IN  /\ tk.kind = "fill" /\ tk.pc = "f_place"
        /\ ok => n <= MaxOrders
        /\ levSent' = levSent \cup {ResolveLeverage(0, tk.bot)}
        /\ IF ok
           THEN /\ ExchangeAccept(n, side, price, tk.oid)
                /\ tasks' = [tasks EXCEPT ![t].pc = "f_commit", ![t].newo = n,
                                          ![t].ord.paired = n,
                                          ![t].rows = IF RowFree(BotRow)
                                                      THEN @ \cup {BotRow}
                                                      ELSE @]
                /\ UNCHANGED placeFailed
           ELSE /\ placeFailed' = placeFailed \cup {tk.oid}
                /\ tasks' = [tasks EXCEPT ![t].pc = "f_commit"]
                /\ UNCHANGED <<exOrders, oppOf, botAtSubmit>>
        /\ escaped' = IF ok THEN escaped ELSE escaped \cup Escapes("place_order")
        /\ UNCHANGED <<position, bridge, seen, dbBot, dbOrders, cancelSeen, cancelBy, flow, locks,
                       lockHolder, notifs, nflows>>

\* the columns of the filled order the session has changed
WriteFilled(row, ord) ==
    [row EXCEPT !.status = ord.status, !.filled_quantity = ord.filled_quantity,
                !.filled_price = ord.filled_price, !.paired = ord.paired]

\* order_monitor.py 141-158: commit the fill, the new order and the link; a
\* filled SELL with a pairing goes on to settle the cycle.  The UPDATE of a
\* row that no longer exists raises, and the handler rolls back (160-163).
FillCommit(t) ==
    LET tk == tasks[t]
        o == tk.oid
        gone == ~dbOrders[o].exists
    IN  /\ tk.kind = "fill" /\ tk.pc = "f_commit"
        /\ RowFreeFor(t, BotRow)
        /\ escaped' = IF gone THEN escaped \cup Escapes("fill_commit") ELSE escaped
        /\ IF gone
           THEN UNCHANGED dbOrders
           ELSE dbOrders' =
                  [x \in OrderIds |->
                     IF x = o THEN WriteFilled(dbOrders[o], tk.ord)
                     ELSE IF x = tk.newo
                     THEN NewOrder(OppositeSide(tk.ord.side),
                                   SidePrice(tk.bot, OppositeSide(tk.ord.side)),
                                   tk.bot.quantity, o)
                     ELSE dbOrders[x]]
        /\ IF ~gone /\ tk.ord.side = "SELL" /\ tk.ord.paired # 0
           THEN /\ tasks' = [tasks EXCEPT ![t].pc = "f_cycle", ![t].rows = {}]
                /\ UNCHANGED lockHolder
           ELSE /\ Finish(t)
                /\ Release(o)
        /\ UNCHANGED <<position, bridge, dbBot, exOrders, history, flow, locks, notifs, nflows>>

\* order_monitor.py 289-319: calculate_cycle_pnl
CalculateCyclePnl(buy_order, sell_order) ==
    LET buy_price == OrElse(buy_order.filled_price, buy_order.price)
        sell_price == OrElse(sell_order.filled_price, sell_order.price)
        quantity == OrElse(sell_order.filled_quantity, sell_order.quantity)
        gross_pnl == (sell_price - buy_price) * quantity
    IN  gross_pnl - buy_order.commission - sell_order.commission

\* the order the session finds under sell_order.paired_order_id: its own new
\* order when the link was just rewritten, the committed row otherwise
PairedOrder(tk) ==
    IF tk.ord.paired = tk.newo
    THEN NewOrder(OppositeSide(tk.ord.side),
                  SidePrice(tk.bot, OppositeSide(tk.ord.side)),
                  tk.bot.quantity, tk.oid)
    ELSE dbOrders[tk.ord.paired]

\* order_monitor.py 216-287: complete_trading_cycle, then leave the section
FillCycle(t) ==
    LET tk == tasks[t]
        buy_order == PairedOrder(tk)
    IN  /\ tk.kind = "fill" /\ tk.pc = "f_cycle"
        /\ RowFree(BotRow)
        /\ IF buy_order.exists /\ dbBot.exists
           THEN dbBot' = [dbBot EXCEPT
                            !.total_trades = tk.bot.total_trades + 1,
                            !.pnl = tk.bot.pnl + CalculateCyclePnl(buy_order, tk.ord)]
           ELSE UNCHANGED dbBot
        /\ Finish(t)
        /\ Release(tk.oid)
        /\ UNCHANGED <<escaped, position, bridge, dbOrders, exOrders, history, flow, locks, notifs, nflows>>

\* ------------------------------------------ _process_cancelled_order (task)
\* websocket.py 379-380: the reasons that mark a system-initiated cancel
IsSystemCancellation(reason) == reason \in {"UPDATE", "STOP", "DELETE"}

\* the rows after the session's "order.status = CANCELLED" is committed: the
\* unit of work writes the column only when the value differs from the loaded
\* one; a row deleted meanwhile makes the UPDATE raise and nothing is written
WriteCancelled(orders, o, loaded) ==
    IF orders[o].exists /\ loaded.status # "CANCELLED"
    THEN [orders EXCEPT ![o].status = "CANCELLED"]
    ELSE orders

\* the bot row after a session's "bot.status = s" is committed
WriteBotStatus(bot, loaded, s) ==
    IF bot.exists /\ loaded.status # s THEN [bot EXCEPT !.status = s] ELSE bot

\* the commit of "order.status = CANCELLED" does not have to wait for the row
CanWriteCancelled(o, loaded) ==
    (dbOrders[o].exists /\ loaded.status # "CANCELLED") => RowFree(o)

\* the commit of "bot.status = s" does not have to wait for the row
CanWriteBotStatus(loaded, s) ==
    (dbBot.exists /\ loaded.status # s) => RowFree(BotRow)

\* the cancel task's commit raises when the order's row was deleted meanwhile
CommitEscapes(o) ==
    IF dbOrders[o].exists THEN {} ELSE Escapes("cancel_commit")

\* websocket.py 353-400: open a session, read the order (no lock is taken),
\* set CANCELLED in the session and classify by the reason just read
CancelRead(t) ==
    LET tk == tasks[t]
        order == GetOrderByExchangeId(tk.oid)
    IN  /\ tk.kind = "cancel" /\ tk.pc = "c_read"
        /\ IF ~order.exists
           THEN Finish(t)
           ELSE tasks' = [tasks EXCEPT
                            ![t].ord = order,
                            ![t].pc = IF IsSystemCancellation(order.reason)
                                      THEN "c_sys" ELSE "c_bot"]
        /\ UNCHANGED <<escaped, position, bridge, dbBot, dbOrders, exOrders, history, flow, locks,
                       lockHolder, notifs, nflows>>

\* websocket.py 386-400: system-initiated: commit the order status only
CancelSysCommit(t) ==
    LET tk == tasks[t] IN
    /\ tk.kind = "cancel" /\ tk.pc = "c_sys"
    /\ CanWriteCancelled(tk.oid, tk.ord)
    /\ dbOrders' = WriteCancelled(dbOrders, tk.oid, tk.ord)
    /\ escaped' = escaped \cup CommitEscapes(tk.oid)
    /\ Finish(t)
    /\ UNCHANGED <<position, bridge, dbBot, exOrders, history, flow, locks, lockHolder, notifs,
                   nflows>>

\* websocket.py 407-421: manual: read the bot; without a bot only the order
\* status is committed
CancelReadBot(t) ==
    LET tk == tasks[t] IN
    /\ tk.kind = "cancel" /\ tk.pc = "c_bot"
    /\ IF ~dbBot.exists
       THEN /\ CanWriteCancelled(tk.oid, tk.ord)
            /\ dbOrders' = WriteCancelled(dbOrders, tk.oid, tk.ord)
            /\ escaped' = escaped \cup CommitEscapes(tk.oid)
            /\ Finish(t)
       ELSE /\ tasks' = [tasks EXCEPT ![t].pc = "c_commit", ![t].bot = dbBot]
            /\ UNCHANGED <<dbOrders, escaped>>
    /\ UNCHANGED <<position, bridge, dbBot, exOrders, history, flow, locks, lockHolder, notifs,
                   nflows>>

\* websocket.py 419-434: manual: commit CANCELLED and the bot's STOPPED
CancelCommit(t) ==
    LET tk == tasks[t] IN
    /\ tk.kind = "cancel" /\ tk.pc = "c_commit"
    /\ CanWriteCancelled(tk.oid, tk.ord)
    /\ CanWriteBotStatus(tk.bot, "STOPPED")
    /\ dbOrders' = WriteCancelled(dbOrders, tk.oid, tk.ord)
    /\ dbBot' = WriteBotStatus(dbBot, tk.bot, "STOPPED")
    /\ escaped' = escaped \cup CommitEscapes(tk.oid)
    /\ Finish(t)
    /\ UNCHANGED <<position, bridge, exOrders, history, flow, locks, lockHolder, notifs, nflows>>

\* ------------------------------------------------------------ request flows
\* the orders a flow's query selects, by stored status
OrdersWithStatus(statuses) ==
    {o \in OrderIds : dbOrders[o].exists /\ dbOrders[o].status \in statuses}

\* exchange.cancel_order(o) issued by a flow: an open order is cancelled when
\* the call goes through (ok); any other call raises or returns false
IssueCancel(o, ok, by) ==
    /\ cancelSeen' = [cancelSeen EXCEPT ![o] =
                        IF dbOrders[o].exists THEN dbOrders[o].reason ELSE "NONE"]
    /\ IF ok /\ exOrders[o].status = "open"
       THEN /\ exOrders' = [exOrders EXCEPT ![o].status = "cancelled"]
            /\ cancelBy' = [cancelBy EXCEPT ![o] = by]
       ELSE UNCHANGED <<exOrders, cancelBy>>

\* the rows after a flow commits "cancellation_reason = r, status = CANCELLED"
\* for the orders it has flushed
WriteReason(orders, touched, r) ==
    [o \in OrderIds |->
        IF o \in touched /\ orders[o].exists
        THEN [orders[o] EXCEPT !.reason = r, !.status = "CANCELLED"]
        ELSE orders[o]]

StartFlow(kind, pc, todo) ==
    /\ flow.kind = "idle"
    /\ nflows < MaxFlows
    /\ nflows' = nflows + 1
    /\ flow' = [IdleFlow EXCEPT !.kind = kind, !.pc = pc, !.todo = todo,
                                !.bot = dbBot]

\* one pass of a flow's cancel loop over the lowest order id left: the reason
\* and CANCELLED are set and flushed inside the session (the flush waits for
\* a transaction that holds the row), then the exchange cancel is issued; a
\* failing cancel is caught and the loop goes on
CancelLoopStep(kind, ok, by, next) ==
    LET o == SetMin(flow.todo) IN
    /\ flow.kind = kind /\ flow.pc = "loop"
    /\ RowFreeForFlow(o)
    /\ IssueCancel(o, ok, by)
    /\ flow' = [flow EXCEPT !.todo = @ \ {o},
                            !.touched = @ \cup {o},
                            !.pc = IF flow.todo = {o} THEN next ELSE "loop"]

\* bots.py 641-670: stop_bot reads the bot and its PENDING orders
StopStart ==
    LET pending == OrdersWithStatus({"PENDING"}) IN
    /\ dbBot.exists
    /\ StartFlow("stop", IF pending # {} THEN "loop" ELSE "commit", pending)
    /\ UNCHANGED <<escaped, position, bridge, dbBot, dbOrders, exOrders, history, tasks, locks, lockHolder,
                   notifs>>

\* bots.py 672-693
StopCancel(ok) ==
    /\ CancelLoopStep("stop", ok, "STOP", "commit")
    /\ UNCHANGED <<escaped, position, bridge, seen, levSent, dbBot, dbOrders, oppOf, botAtSubmit, placeFailed, tasks,
                   locks, lockHolder, notifs, nflows>>

\* bots.py 705-727: bot.status = STOPPED and the commit of the whole session
StopCommit ==
    /\ flow.kind = "stop" /\ flow.pc = "commit"
    /\ CanWriteBotStatus(flow.bot, "STOPPED")
    /\ dbOrders' = WriteReason(dbOrders, flow.touched, "STOP")
    /\ dbBot' = WriteBotStatus(dbBot, flow.bot, "STOPPED")
    /\ flow' = IdleFlow
    /\ UNCHANGED <<escaped, position, bridge, exOrders, history, tasks, locks, lockHolder, notifs, nflows>>

\* bots.py 259-297 and 407-424: update_bot on an ACTIVE bot, with a request
\* that leaves prices and quantity as they are (the bot row is not written
\* before the commit), reads its PENDING
\* and PARTIALLY_FILLED orders
UpdateStart ==
    LET pending == OrdersWithStatus({"PENDING", "PARTIALLY_FILLED"}) IN
    /\ dbBot.exists /\ dbBot.status = "ACTIVE"
    /\ StartFlow("update", IF pending # {} THEN "loop" ELSE "place", pending)
    /\ UNCHANGED <<escaped, position, bridge, dbBot, dbOrders, exOrders, history, tasks, locks, lockHolder,
                   notifs>>

\* bots.py 425-436: update_bot on a bot that is not ACTIVE only stores the
\* configuration
UpdateInactive ==
    /\ dbBot.exists /\ dbBot.status # "ACTIVE"
    /\ flow.kind = "idle" /\ nflows < MaxFlows
    /\ nflows' = nflows + 1
    /\ UNCHANGED <<escaped, position, bridge, dbBot, dbOrders, exOrders, history, tasks, flow, locks,
                   lockHolder, notifs>>

\* bots.py 303-321
UpdateCancel(ok) ==
    /\ CancelLoopStep("update", ok, "UPDATE", "place")
    /\ UNCHANGED <<escaped, position, bridge, seen, levSent, dbBot, dbOrders, oppOf, botAtSubmit, placeFailed, tasks,
                   locks, lockHolder, notifs, nflows>>

\* the side of a bot's very first order, whatever was filled since
UpdateSideFirstOrder(bot) == bot.first_order

\* bots.py 332-359: the side of the replacement order: the opposite of the
\* most recently created FILLED order, or first_order when there is none.
\* The query runs inside the flow's transaction, where the orders the flow
\* has flushed as CANCELLED are no longer FILLED whatever was committed.
UpdateSide(bot) ==
    LET filled == OrdersWithStatus({"FILLED"}) \ flow.touched IN
    IF filled # {} THEN OppositeSide(dbOrders[SetMax(filled)].side)
    ELSE bot.first_order

\* bots.py 361-424: place the replacement order; a raising place_order reaches
\* the outer handler: bot ERROR, and the commit carries the flushed orders too
UpdatePlace(ok) ==
    LET side == UpdateSide(flow.bot)
        price == SidePrice(flow.bot, side)
        n == NextId
    IN  /\ flow.kind = "update" /\ flow.pc = "place"
        /\ ok => n <= MaxOrders
        /\ levSent' = levSent \cup {ResolveLeverage(0, flow.bot)}
        /\ IF ok
           THEN /\ ExchangeAccept(n, side, price, 0)
                /\ flow' = [flow EXCEPT !.pc = "commit", !.newo = n]
                /\ UNCHANGED <<dbBot, dbOrders>>
           ELSE /\ CanWriteBotStatus(flow.bot, "ERROR")
                /\ dbOrders' = WriteReason(dbOrders, flow.touched, "UPDATE")
                /\ dbBot' = WriteBotStatus(dbBot, flow.bot, "ERROR")
                /\ flow' = IdleFlow
                /\ UNCHANGED <<exOrders, oppOf, botAtSubmit>>
        /\ UNCHANGED <<escaped, position, bridge, seen, cancelSeen, cancelBy, placeFailed, tasks, locks,
                       lockHolder, notifs, nflows>>

\* bots.py 382-436: the commit of the update flow
UpdateCommit ==
    LET n == flow.newo
        rows == WriteReason(dbOrders, flow.touched, "UPDATE")
    IN  /\ flow.kind = "update" /\ flow.pc = "commit"
        /\ dbOrders' = [rows EXCEPT ![n] =
                          NewOrder(exOrders[n].side, exOrders[n].price,
                                   flow.bot.quantity, 0)]
        /\ flow' = IdleFlow
        /\ UNCHANGED <<escaped, position, bridge, dbBot, exOrders, history, tasks, locks, lockHolder,
                       notifs, nflows>>

\* bots.py 464-494: delete_bot reads the bot and its PENDING orders
DeleteStart ==
    LET pending == OrdersWithStatus({"PENDING"}) IN
    /\ dbBot.exists
    /\ StartFlow("delete", IF pending # {} THEN "loop" ELSE "commit", pending)
    /\ UNCHANGED <<escaped, position, bridge, dbBot, dbOrders, exOrders, history, tasks, locks, lockHolder,
                   notifs>>

\* bots.py 497-524
DeleteCancel(ok) ==
    /\ CancelLoopStep("delete", ok, "DELETE", "commit")
    /\ UNCHANGED <<escaped, position, bridge, seen, levSent, dbBot, dbOrders, oppOf, botAtSubmit, placeFailed, tasks,
                   locks, lockHolder, notifs, nflows>>

\* bots.py 543-546: the bot row goes, and its orders with it (cascade)
DeleteCommit ==
    /\ flow.kind = "delete" /\ flow.pc = "commit"
    /\ \A r \in {BotRow} \cup OrderIds : RowFreeForFlow(r)
    /\ dbBot' = NoBot
    /\ dbOrders' = [o \in OrderIds |-> NoOrder]
    /\ flow' = IdleFlow
    /\ UNCHANGED <<escaped, position, bridge, exOrders, history, tasks, locks, lockHolder, notifs, nflows>>

\* trading_service.py 359-365: the polling loop's fill timeout cancels the
\* order it waits for on the exchange; no cancellation reason is written
PollTimeout(o, ok) ==
    /\ dbBot.exists /\ dbBot.status = "ACTIVE"
    /\ o \in OrdersWithStatus({"PENDING"})
    /\ StartFlow("poll", "commit", {})
    /\ IssueCancel(o, ok, "POLL")
    /\ UNCHANGED <<escaped, position, bridge, seen, levSent, dbBot, dbOrders, oppOf, botAtSubmit, placeFailed, tasks,
                   locks, lockHolder, notifs>>

\* trading_service.py 366-368, 185-186, 454-455: after a cancel that returned,
\* the order is committed as CANCELLED; the timeout (or the raising cancel)
\* then reaches _handle_bot_error, which commits the bot as ERROR
PollCommit ==
    LET o == CHOOSE x \in OrderIds : cancelBy[x] = "POLL" IN
    /\ flow.kind = "poll" /\ flow.pc = "commit"
    /\ (\E x \in OrderIds : cancelBy[x] = "POLL") => RowFree(o)
    /\ CanWriteBotStatus(flow.bot, "ERROR")
    /\ dbOrders' = IF \E x \in OrderIds : cancelBy[x] = "POLL"
                   THEN WriteCancelled(dbOrders, o, [status |-> "PENDING"])
                   ELSE dbOrders
    /\ dbBot' = WriteBotStatus(dbBot, flow.bot, "ERROR")
    /\ flow' = IdleFlow
    /\ UNCHANGED <<escaped, position, bridge, exOrders, history, tasks, locks, lockHolder, notifs, nflows>>

\* ------------------------------------------------------------ specification
TaskStep(t) ==
    \/ FillAcquire(t)
    \/ FillReadBot(t)
    \/ \E ok \in BOOLEAN : FillPlace(t, ok)
    \/ FillCommit(t)
    \/ FillCycle(t)
    \/ CancelRead(t)
    \/ CancelSysCommit(t)
    \/ CancelReadBot(t)
    \/ CancelCommit(t)

\* the exchange in the request-flow races: fills at the limit price, reported
\* with their price
ExchangeStep ==
    \/ \E o \in OrderIds : ExchangeFillAtLimit(o)
    \/ \E o \in OrderIds : ExchangeManualCancel(o)
    \/ \E o \in OrderIds : \E r \in PricedReports(o), b \in BroadcastOutcomes :
            HandleOrderUpdate(o, r, b)

FlowStep ==
    \/ StopStart
    \/ \E ok \in BOOLEAN : StopCancel(ok)
    \/ StopCommit
    \/ UpdateStart
    \/ UpdateInactive
    \/ \E ok \in BOOLEAN : UpdateCancel(ok)
    \/ \E ok \in BOOLEAN : UpdatePlace(ok)
    \/ UpdateCommit
    \/ DeleteStart
    \/ \E ok \in BOOLEAN : DeleteCancel(ok)
    \/ DeleteCommit
    \/ \E o \in OrderIds, ok \in BOOLEAN : PollTimeout(o, ok)
    \/ PollCommit

Next ==
    \/ \E t \in TaskIds : TaskStep(t)
    \/ ExchangeStep
    \/ FlowStep

Spec == Init /\ [][Next]_vars

\* The event router alone, on every fill the exchange can produce: fills at
\* the limit or at a better price, reported with or without an average price
FillTaskStep(t) ==
    \/ FillAcquire(t)
    \/ FillReadBot(t)
    \/ \E ok \in BOOLEAN : FillPlace(t, ok)
    \/ FillCommit(t)
    \/ FillCycle(t)

NextCycle ==
    \/ \E t \in TaskIds : FillTaskStep(t)
    \/ \E o \in OrderIds : ExchangeFillAtLimit(o)
    \/ \E o \in OrderIds : ExchangeFillBetter(o)
    \/ \E o \in OrderIds : \E r \in Reports(o), b \in BroadcastOutcomes :
            HandleOrderUpdate(o, r, b)

SpecCycle == Init /\ [][NextCycle]_vars

\* The event router on a bot created with infinite_loop true
InitLoop == \E first \in {"BUY", "SELL"} : InitWith(first, TRUE)

SpecLoop == InitLoop /\ [][NextCycle]_vars

\* The event router on fills and on cancels made on the exchange itself (no
\* request flow runs, so no order carries a system reason)
ManualCancelTaskStep(t) ==
    \/ CancelRead(t)
    \/ CancelReadBot(t)
    \/ CancelCommit(t)

NextRouter ==
    \/ \E t \in TaskIds : FillTaskStep(t)
    \/ \E t \in TaskIds : ManualCancelTaskStep(t)
    \/ \E o \in OrderIds : ExchangeFillAtLimit(o)
    \/ \E o \in OrderIds : ExchangeManualCancel(o)
    \/ \E o \in OrderIds : \E r \in Reports(o), b \in BroadcastOutcomes :
            HandleOrderUpdate(o, r, b)

SpecRouter == Init /\ [][NextRouter]_vars

\* The event router while the bot may be deleted: the commits of its tasks
\* can find the rows gone
NextDelete ==
    \/ NextRouter
    \/ DeleteStart
    \/ \E ok \in BOOLEAN : DeleteCancel(ok)
    \/ DeleteCommit

SpecDelete == Init /\ [][NextDelete]_vars

\* ================================================================== claims
\* orders the exchange has accepted as the opposite of the filled order o
OppositesOf(o) ==
    {n \in OrderIds : exOrders[n].status # "none" /\ oppOf[n] = o}

FillTasksOf(o) == {t \in TaskIds : tasks[t].kind = "fill" /\ tasks[t].oid = o}

\* C1: for duplicate full-fill notifications of one order of an ACTIVE bot,
\* processed as concurrent background tasks, at most one opposite order is
\* ever accepted by the exchange, and once the fill is committed and its
\* placement did not raise there is exactly one.
C1_ExactlyOneOpposite ==
    \A o \in OrderIds :
        /\ Cardinality(OppositesOf(o)) <= 1
        /\ (dbOrders[o].status = "FILLED" /\ o \notin placeFailed)
              => Cardinality(OppositesOf(o)) = 1

\* a step taken by the event router's background tasks
RouterStep == tasks' # tasks /\ notifs' = notifs

\* C2: once an order's stored status is terminal, no fill or cancel
\* processing changes it.
C2_TerminalIsFinal ==
    [][RouterStep =>
         \A o \in OrderIds :
            (dbOrders[o].exists /\ dbOrders[o].status \in TerminalStatuses)
               => dbOrders'[o].status = dbOrders[o].status]_vars

\* the step in which cancel task t ends for an order it found
CancelEnds(t) ==
    /\ tasks[t].kind = "cancel"
    /\ tasks[t].pc \in {"c_sys", "c_bot", "c_commit"}
    /\ tasks'[t].kind = "idle"
    /\ dbOrders[tasks[t].oid].exists

\* C3: a processed cancel notification leaves the order CANCELLED; with a
\* reason UPDATE, STOP or DELETE read at that time the bot's status is
\* unchanged by the event, with no reason (or MANUAL) it becomes STOPPED.
C3_CancelClassification ==
    [][\A t \in TaskIds :
         CancelEnds(t) =>
            /\ dbOrders'[tasks[t].oid].status = "CANCELLED"
            /\ IF tasks[t].ord.reason \in SystemReasons
               THEN dbBot'.status = dbBot.status
               ELSE dbBot.exists => dbBot'.status = "STOPPED"]_vars

\* C4: whenever cancel_order is issued for an order, the order's committed
\* cancellation reason is already the system value.
C4_ReasonDurableBeforeCancel ==
    \A o \in OrderIds : cancelSeen[o] \in {"NOCALL"} \cup SystemReasons

\* C5: a cancel notification for an order the update flow cancelled is never
\* classified as manual.
C5_UpdateCancelIsSystem ==
    \A t \in TaskIds :
        (tasks[t].kind = "cancel" /\ cancelBy[tasks[t].oid] = "UPDATE")
           => tasks[t].pc \notin {"c_bot", "c_commit"}

\* task t is between its read of the order and its commit
InReconciliation(t) ==
    \/ tasks[t].kind = "fill"
         /\ tasks[t].pc \in {"f_bot", "f_place", "f_commit", "f_cycle"}
    \/ tasks[t].kind = "cancel"
         /\ tasks[t].pc \in {"c_sys", "c_bot", "c_commit"}

\* C6: no two reconciliations of the same order id are inside their
\* read-modify-write at the same time, and each holds the order's section.
C6_Serialized ==
    \A t1, t2 \in TaskIds :
        (InReconciliation(t1) /\ InReconciliation(t2) /\ t1 # t2)
           => tasks[t1].oid # tasks[t2].oid

\* C7: every opposite order is submitted while the bot's status is ACTIVE.
C7_ActiveAtSubmit ==
    \A n \in OrderIds : oppOf[n] # 0 => botAtSubmit[n] = "ACTIVE"

\* C8: once the processing of a fill whose opposite placement raised has
\* ended, an order is stored as FAILED and the bot is ERROR.
C8_FailureRecorded ==
    \A o \in placeFailed :
        FillTasksOf(o) = {}
           => /\ dbBot.status = "ERROR"
              /\ \E x \in OrderIds : dbOrders[x].status = "FAILED"

\* C9: with infinite_loop false, once a BUY and the SELL placed as its
\* opposite are both filled, the fill of that SELL places no further order.
C9_NoFurtherCycle ==
    ~dbBot.infinite_loop =>
        \A n \in OrderIds :
            (oppOf[n] # 0 /\ exOrders[oppOf[n]].side = "SELL")
               => oppOf[oppOf[n]] = 0

\* the PnL the claim states for SELL s paired with the filled BUY b, given
\* the fill the notification reports for s
ClaimedPnl(b, s, sell_fill_price, sell_filled_quantity) ==
    (OrElse(sell_fill_price, s.price) - OrElse(b.filled_price, b.price))
        * sell_filled_quantity - b.commission - s.commission

\* C10: when the SELL placed as the opposite of a filled BUY is filled, the
\* settlement adds one trade and (sell fill - buy fill) * quantity minus the
\* commissions to the bot.
C10_CyclePnl ==
    [][\A t \in TaskIds :
         (/\ tasks[t].kind = "fill" /\ tasks[t].pc = "f_cycle"
          /\ tasks'[t].kind = "idle"
          /\ tasks[t].ord.side = "SELL"
          /\ oppOf[tasks[t].oid] # 0)
         => /\ dbBot'.total_trades = dbBot.total_trades + 1
            /\ dbBot'.pnl = dbBot.pnl
                  + ClaimedPnl(dbOrders[oppOf[tasks[t].oid]], tasks[t].ord,
                               tasks[t].price, tasks[t].fq)]_vars

\* order n is the second leg of its cycle: the opposite of a first leg
RECURSIVE IsSecondLeg(_)
IsSecondLeg(n) == oppOf[n] # 0 /\ ~IsSecondLeg(oppOf[n])

\* the cycles of the bot in which both legs are stored as FILLED, each named
\* by its second leg
CompletedCycles ==
    {n \in OrderIds :
        /\ IsSecondLeg(n)
        /\ dbOrders[n].status = "FILLED"
        /\ dbOrders[oppOf[n]].status = "FILLED"}

\* C11: once every fill notification received has been processed, the bot's
\* total_trades is the number of its cycles whose BUY leg and SELL leg are
\* both filled.
C11_TradesAreCycles ==
    (\A t \in TaskIds : tasks[t].kind = "idle")
        => dbBot.total_trades = Cardinality(CompletedCycles)

\* The event router on a bot with or without a configured leverage, with or
\* without a position opened outside the engine
InitLeverage ==
    \E first \in {"BUY", "SELL"}, lev \in {0, BotLeverage},
       pos \in {0, PosLeverage} :
        InitState([InitBot(first, FALSE) EXCEPT !.leverage = lev], pos)

SpecLeverage == InitLeverage /\ [][NextCycle]_vars

\* the leverage the claim states for an order request of the bot
ClaimedLeverage ==
    IF position # 0 THEN position ELSE OrElse(dbBot.leverage, DefaultLeverage)

\* C12: every order request the engine submits carries the leverage of the
\* open position the exchange reports for the ticker, and the bot's
\* configured leverage (3 when unset) only when there is no position.
C12_PositionLeverage == \A l \in levSent : l = ClaimedLeverage

\* C13: once the processing of a "filled" report with filled quantity 0 that
\* the handler has classified for a known order has ended, the order is
\* stored as FILLED
\* with filled quantity equal to its total quantity, and the opposite order
\* was submitted for it.
C13_ZeroQuantityFill ==
    \A o \in OrderIds :
        ("zero" \in seen[o] /\ FillTasksOf(o) = {} /\ dbOrders[o].exists)
           => /\ dbOrders[o].status = "FILLED"
              /\ dbOrders[o].filled_quantity = dbOrders[o].quantity
              /\ (OppositesOf(o) # {} \/ o \in placeFailed)

\* only reports without a quantity were ingested for order 1, they are
\* processed, and the opposite order is open on the exchange
C13_Witness ==
    /\ seen[1] = {"zero"}
    /\ FillTasksOf(1) = {}
    /\ dbOrders[1].status = "FILLED"
    /\ dbOrders[1].filled_quantity = Qty
    /\ OppositesOf(1) = {2}

\* C14: an opposite order is placed only for an order for which a report
\* with status "filled" and a complete quantity (the total, or 0 standing
\* for it) was ingested, and which the exchange has filled: an open, partial
\* or cancelled report, or a "filled" report with a quantity below the total,
\* places nothing.
C14_OnlyFullFillContinues ==
    \A n \in OrderIds :
        oppOf[n] # 0 =>
            /\ seen[oppOf[n]] \cap {"zero", "full", "early"} # {}
            /\ exOrders[oppOf[n]].status = "filled"

\* order 2 was placed for the reported fill of order 1; the cancel report of
\* order 2 has been processed and nothing was placed for it
C14_Witness ==
    /\ oppOf[2] = 1
    /\ seen[1] \cap {"zero", "full"} # {}
    /\ dbOrders[2].status = "CANCELLED"
    /\ \A t \in TaskIds : tasks[t].kind = "idle"
    /\ OppositesOf(2) = {}

\* C15: in every committed state the pairing is symmetric and joins orders
\* of opposite sides: a.paired_order_id = b implies b.paired_order_id = a.
C15_PairingSymmetric ==
    \A a \in OrderIds :
        (dbOrders[a].exists /\ dbOrders[a].paired # 0)
           => /\ dbOrders[dbOrders[a].paired].exists
              /\ dbOrders[dbOrders[a].paired].paired = a
              /\ dbOrders[dbOrders[a].paired].side = OppositeSide(dbOrders[a].side)

\* a step taken by the update, stop or delete flow or by the polling loop
RequestFlowStep == flow' # flow \/ nflows' # nflows

\* C16: no step of the update, stop or delete flow or of the polling loop
\* changes the stored status of an order; those flows write at most the
\* cancellation reason.
C16_OnlyRouterWritesStatus ==
    [][RequestFlowStep =>
         \A o \in OrderIds :
            (dbOrders[o].exists /\ dbOrders'[o].exists)
               => dbOrders'[o].status = dbOrders[o].status]_vars

\* C17: no step of the event router's tasks moves a bot out of ERROR, and
\* none submits an order while the bot's committed status is ERROR.
C17_ErrorIsSticky ==
    [][(RouterStep /\ dbBot.exists /\ dbBot.status = "ERROR")
          => /\ dbBot'.status = "ERROR"
             /\ levSent' = levSent
             /\ exOrders' = exOrders]_vars

C20_DeliveryIndependent ==
    \A o \in OrderIds : \A r \in Reports(o) : \A b \in BroadcastOutcomes :
        (CreatesTask(r, Qty) /\ ENABLED HandleOrderUpdate(o, r, "delivered"))
           => ~ENABLED (HandleOrderUpdate(o, r, b) /\ UNCHANGED tasks)

\* task t looks up an order id that matches no stored order
LooksUpUnknown(t) ==
    /\ tasks[t].pc \in {"f_lock", "c_read"}
    /\ ~dbOrders[tasks[t].oid].exists
    /\ tasks'[t] # tasks[t]

\* C21: the processing of a fill or cancel notification whose order id
\* matches no stored order ends at the lookup: no order is created or
\* modified, the bot is unchanged and nothing is sent to the exchange.
C21_UnknownOrderDropped ==
    [][\A t \in TaskIds :
         LooksUpUnknown(t) =>
            /\ tasks'[t] = IdleTask
            /\ UNCHANGED <<dbBot, dbOrders, exOrders, levSent>>]_vars

\* the fill report of order 2 arrived before order 2 was stored and its
\* processing has ended: order 2 is filled on the exchange, still PENDING in
\* the store, and nothing was placed for it
C21_Witness ==
    /\ "early" \in seen[2]
    /\ seen[2] \cap {"zero", "full"} = {}
    /\ FillTasksOf(2) = {}
    /\ dbOrders[2].exists /\ dbOrders[2].status = "PENDING"
    /\ exOrders[2].status = "filled"
    /\ OppositesOf(2) = {}

\* C22: once the submission of the opposite order has failed for a filled
\* order, no order is ever submitted for that fill: none is on the exchange
\* and no processing of that order is about to call place_opposite_order.
C22_NoRetryAfterFailure ==
    \A o \in placeFailed :
        /\ OppositesOf(o) = {}
        /\ \A t \in FillTasksOf(o) : tasks[t].pc # "f_place"

\* ------------------------------------------------ delivery order (C23)
\* the committed state the two handlers read and write
Store == [bot |-> dbBot, orders |-> dbOrders, ex |-> exOrders, opp |-> oppOf]

StoreNextId(s) ==
    Cardinality({o \in OrderIds : s.ex[o].status # "none"}) + 1

\* order_monitor.py 67-158 run from entry to return with nothing in between:
\* the store after process_order_fill(o, fq, price); ok is the outcome of
\* exchange.place_order.  An unknown or FILLED order and a missing or
\* inactive bot return before the commit, so nothing is written.
ProcessOrderFill(s, o, fq, price, ok) ==
    LET order == s.orders[o]
        bot == s.bot
        side == OppositeSide(order.side)
        n == StoreNextId(s)
        newo == NewOrder(side, SidePrice(bot, side), bot.quantity, o)
        filled == [UpdateOrderStatus(order, "FILLED", fq, price)
                      EXCEPT !.paired = IF ok THEN n ELSE @]
        buy_order == IF ok THEN newo
                     ELSE IF filled.paired # 0 THEN s.orders[filled.paired]
                     ELSE NoOrder
        cycle == filled.side = "SELL" /\ filled.paired # 0 /\ buy_order.exists
    IN  IF \/ ~order.exists \/ AlreadyProcessed(order)
           \/ ~bot.exists \/ ~BotIsActive(bot)
        THEN s
        ELSE [bot |-> IF cycle
                      THEN [bot EXCEPT
                              !.total_trades = @ + 1,
                              !.pnl = @ + CalculateCyclePnl(buy_order, filled)]
                      ELSE bot,
              orders |-> [x \in OrderIds |->
                            IF x = o THEN filled
                            ELSE IF ok /\ x = n THEN newo
                            ELSE s.orders[x]],
              ex |-> IF ok
                     THEN [s.ex EXCEPT ![n] =
                             [status |-> "open", side |-> side,
                              price |-> SidePrice(bot, side), fill_price |-> 0]]
                     ELSE s.ex,
              opp |-> IF ok THEN [s.opp EXCEPT ![n] = o] ELSE s.opp]

\* websocket.py 353-434 run from entry to return with nothing in between: the
\* store after _process_cancelled_order(o)
ProcessCancelledOrder(s, o) ==
    LET order == s.orders[o] IN
    IF ~order.exists THEN s
    ELSE IF IsSystemCancellation(order.reason) \/ ~s.bot.exists
    THEN [s EXCEPT !.orders = WriteCancelled(@, o, order)]
    ELSE [s EXCEPT !.orders = WriteCancelled(@, o, order),
                   !.bot = WriteBotStatus(@, s.bot, "STOPPED")]

\* websocket.py 213-256: the handler a notification of the given status is
\* routed to; a full fill carries the order's quantity
Route(s, o, status, price, ok) ==
    IF status = "filled"
    THEN ProcessOrderFill(s, o, s.orders[o].quantity, price, ok)
    ELSE ProcessCancelledOrder(s, o)

\* the notifications of a sequence processed one after the other
RECURSIVE RouteAll(_, _, _, _, _)
RouteAll(s, o, statuses, price, ok) ==
    IF statuses = <<>> THEN s
    ELSE RouteAll(Route(s, o, Head(statuses), price, ok), o, Tail(statuses),
                  price, ok)

\* the transport delivers one notification about a stored order and the
\* handler runs to its end before the next delivery
Deliver(o, status, price, ok) ==
    LET s == Route(Store, o, status, price, ok) IN
    /\ dbOrders[o].exists
    /\ price \in FillPrices(dbOrders[o].side, dbOrders[o].price)
    /\ ok => StoreNextId(Store) <= MaxOrders
    /\ dbBot' = s.bot
    /\ dbOrders' = s.orders
    /\ exOrders' = s.ex
    /\ oppOf' = s.opp
    /\ UNCHANGED <<botAtSubmit, cancelSeen, cancelBy, placeFailed, tasks, flow,
                   locks, lockHolder, notifs, nflows, position, bridge, seen, levSent,
                   escaped>>

NextDelivery ==
    \E o \in OrderIds, status \in {"filled", "cancelled"},
       price \in FillPrices("BUY", BuyPrice) \cup FillPrices("SELL", SellPrice),
       ok \in BOOLEAN :
        Deliver(o, status, price, ok)

SpecDelivery == Init /\ [][NextDelivery]_vars

\* what the claim compares: the stored status of the order, the status of
\* the bot and the opposite orders placed for the order
Outcome(s, o) ==
    [status |-> s.orders[o].status,
     bot |-> IF s.bot.exists THEN s.bot.status ELSE "DELETED",
     opposites |-> {n \in OrderIds : s.opp[n] = o}]

\* the sequences of at most MaxBatch notifications about one order
Batches ==
    UNION {[1..k -> {"filled", "cancelled"}] : k \in 1..MaxBatch}

Count(q, x) == Cardinality({i \in DOMAIN q : q[i] = x})

SameNotifications(q1, q2) ==
    /\ Len(q1) = Len(q2)
    /\ \A x \in {"filled", "cancelled"} : Count(q1, x) = Count(q2, x)

\* C23: from every state, two sequences that hold the same notifications
\* about a stored order (one fill and one cancel in either order, repeated
\* fills) end with the same stored order status, the same bot status and the
\* same set of opposite orders, when the exchange answers alike.
C23_DeliveryOrderIrrelevant ==
    \A o \in OrderIds, q1, q2 \in Batches, ok \in BOOLEAN :
        (/\ dbOrders[o].exists
         /\ SameNotifications(q1, q2)
         /\ ok => StoreNextId(Store) <= MaxOrders)
           => Outcome(RouteAll(Store, o, q1, dbOrders[o].price, ok), o)
                = Outcome(RouteAll(Store, o, q2, dbOrders[o].price, ok), o)

\* C24: an order placed for a fill is a SELL at the bot's sell price after a
\* filled BUY and a BUY at the bot's buy price after a filled SELL, whatever
\* the price of the fill was, and it is stored with that side and price and
\* with the bot's configured quantity.
C24_OppositeSideAndPrice ==
    \A n \in OrderIds :
        (oppOf[n] # 0 /\ dbBot.exists) =>
            /\ exOrders[oppOf[n]].side = "BUY" =>
                  /\ exOrders[n].side = "SELL"
                  /\ exOrders[n].price = dbBot.sell_price
            /\ exOrders[oppOf[n]].side = "SELL" =>
                  /\ exOrders[n].side = "BUY"
                  /\ exOrders[n].price = dbBot.buy_price
            /\ dbOrders[n].exists =>
                  /\ dbOrders[n].side = exOrders[n].side
                  /\ dbOrders[n].price = exOrders[n].price
                  /\ dbOrders[n].quantity = dbBot.quantity

\* order 1 was filled at a better price than its limit and reported with
\* that price, order 2 was placed and stored for it, and order 3 for the
\* fill of order 2
C24_Witness ==
    /\ oppOf[2] = 1 /\ oppOf[3] = 2
    /\ exOrders[1].fill_price # exOrders[1].price
    /\ dbOrders[1].filled_price = exOrders[1].fill_price
    /\ dbOrders[2].exists /\ dbOrders[3].exists

\* ------------------------------------------------- perpetual loop (C25)
\* The event router on an infinite-loop bot that nobody stops and whose
\* placements all succeed.  Every task created by handle_order_update is a
\* coroutine on the event loop, which runs each one that can go on
\* (asyncio.create_task, websocket.py 232-256), and asyncio.Lock hands the
\* section to a waiter once it is released: weak fairness per task.
LiveTaskStep(t) ==
    \/ FillAcquire(t)
    \/ FillReadBot(t)
    \/ FillPlace(t, TRUE)
    \/ FillCommit(t)
    \/ FillCycle(t)

NextLive ==
    \/ \E t \in TaskIds : LiveTaskStep(t)
    \/ \E o \in OrderIds : ExchangeFillAtLimit(o)
    \/ \E o \in OrderIds : ExchangeFillBetter(o)
    \/ \E o \in OrderIds : \E r \in Reports(o), b \in BroadcastOutcomes :
            HandleOrderUpdate(o, r, b)

SpecLive ==
    /\ InitLoop
    /\ [][NextLive]_vars
    /\ \A t \in TaskIds : WF_vars(LiveTaskStep(t))

\* a full-fill notification of order o has passed the fill check of the
\* handler
FullFillNotified(o) == seen[o] \cap {"zero", "full", "early"} # {}

\* C25: on an ACTIVE infinite-loop bot that is never stopped and whose
\* placements succeed, every full-fill notification of an order is eventually
\* followed by the placement of the opposite order (for every order that
\* leaves room for one more under the bound), so the loop goes on.
C25_LoopGoesOn ==
    \A o \in 1..(MaxOrders - 1) : FullFillNotified(o) ~> (OppositesOf(o) # {})

\* the processing of a full-fill notification reaches the duplicate check
\* with the order stored as FILLED
ReadsFilledOrder(t) ==
    /\ tasks[t].kind = "fill" /\ tasks[t].pc = "f_lock"
    /\ dbOrders[tasks[t].oid].exists
    /\ dbOrders[tasks[t].oid].status = "FILLED"
    /\ tasks'[t] # tasks[t]

\* C26: a full-fill notification for an order already stored as FILLED is
\* discarded: its processing ends at the duplicate check and leaves the
\* orders with their pairing, the bot (status, pnl, total_trades) and the
\* exchange's orders as they were; nothing is submitted.
C26_DuplicateFillDiscarded ==
    [][\A t \in TaskIds :
         ReadsFilledOrder(t) =>
            /\ tasks'[t] = IdleTask
            /\ UNCHANGED <<dbBot, dbOrders, exOrders, oppOf, levSent,
                           placeFailed>>]_vars

\* two full-fill notifications of order 1 were processed: order 1 is FILLED,
\* one opposite order is open, and no other order was ever processed
C26_Witness ==
    /\ notifs = 2
    /\ \A t \in TaskIds : tasks[t].kind = "idle"
    /\ locks = {1}
    /\ dbOrders[1].status = "FILLED"
    /\ OppositesOf(1) = {2}
    /\ exOrders[2].status = "open"
    /\ dbOrders[2].exists /\ dbOrders[2].status = "PENDING"

\* a notification of a partial fill, as the stream reports it for an open
\* order
PartialReport == [status |-> "partially_filled", fq |-> PartQty, price |-> 0]

\* C27: whenever the handler can take a partial-fill notification of a stored
\* order, handling it records the fill: the stored order then carries the
\* reported filled quantity and the status PARTIALLY_FILLED, and no
\* continuation is started (no task, no order submitted).
C27_PartialFillRecorded ==
    \A o \in OrderIds :
        (/\ dbOrders[o].exists
         /\ ENABLED HandleOrderUpdate(o, PartialReport, "delivered"))
           => ENABLED (/\ HandleOrderUpdate(o, PartialReport, "delivered")
                       /\ dbOrders'[o].filled_quantity = PartQty
                       /\ dbOrders'[o].status = "PARTIALLY_FILLED"
                       /\ tasks' = tasks
                       /\ exOrders' = exOrders)

\* a processing of a fill passes "async with order_lock"
PassesLock(t) ==
    /\ tasks[t].kind = "fill" /\ tasks[t].pc = "f_lock"
    /\ tasks'[t] # tasks[t]

\* C28: the registry holds one lock per exchange order id: an entry, once
\* created, is never removed or replaced, every processing of a fill of the
\* id passes through that entry's lock and passes only while no other
\* processing of the id holds it, also when the first references race; the
\* holder recorded for an id is a processing of that id.
C28_OneLockPerOrder ==
    [][/\ locks \subseteq locks'
       /\ \A t \in TaskIds :
            PassesLock(t) =>
               /\ lockHolder[tasks[t].oid] = 0
               /\ tasks[t].oid \in locks'
       /\ \A o \in OrderIds :
            lockHolder'[o] # 0 =>
               /\ o \in locks'
               /\ tasks'[lockHolder'[o]].kind = "fill"
               /\ tasks'[lockHolder'[o]].oid = o]_vars

\* two processings of the fill of order 1 run at once: one holds the lock
\* of order 1 and the other one waits for it
C28_Witness ==
    /\ \A t \in TaskIds : tasks[t].kind = "fill" /\ tasks[t].oid = 1
    /\ \E t \in TaskIds : lockHolder[1] = t /\ tasks[t].pc = "f_bot"
    /\ \E t \in TaskIds : tasks[t].pc = "f_lock"
    /\ locks = {1}

\* --------------------------------------------------------- start_bot (C29)
\* how place_order_for_bot ends on the start path: the order is placed,
\* get_exchange_for_bot raises ValueError, or the exchange call raises
PlaceOutcomes == {"placed", "config_error", "exchange_error"}

\* bots.py 556-568: start_bot reads the bot; its status is not looked at
StartBegin ==
    /\ dbBot.exists
    /\ StartFlow("start", "place", {})
    /\ UNCHANGED <<escaped, position, bridge, dbBot, dbOrders, exOrders, history,
                   tasks, locks, lockHolder, notifs>>

\* bots.py 570-581 and order_service.py 63-122: the first order is requested;
\* an exception leaves place_order_for_bot before an Order is created and
\* reaches one of the two except clauses of start_bot
StartPlace(outcome) ==
    LET side == flow.bot.first_order
        price == SidePrice(flow.bot, side)
        n == NextId
    IN  /\ flow.kind = "start" /\ flow.pc = "place"
        /\ outcome = "placed" => n <= MaxOrders
        /\ levSent' = IF outcome = "config_error" THEN levSent
                      ELSE levSent \cup {ResolveLeverage(0, flow.bot)}
        /\ IF outcome = "placed"
           THEN /\ ExchangeAccept(n, side, price, 0)
                /\ flow' = [flow EXCEPT !.pc = "commit", !.newo = n]
           ELSE /\ flow' = [flow EXCEPT !.pc = outcome]
                /\ UNCHANGED <<exOrders, oppOf, botAtSubmit>>
        /\ UNCHANGED <<escaped, position, bridge, seen, dbBot, dbOrders, cancelSeen,
                       cancelBy, placeFailed, tasks, locks, lockHolder, notifs,
                       nflows>>

\* bots.py 583-596: bot.status = ACTIVE and the commit with the new order
StartCommit ==
    LET side == flow.bot.first_order IN
    /\ flow.kind = "start" /\ flow.pc = "commit"
    /\ CanWriteBotStatus(flow.bot, "ACTIVE")
    /\ dbBot' = WriteBotStatus(dbBot, flow.bot, "ACTIVE")
    /\ dbOrders' = [dbOrders EXCEPT ![flow.newo] =
                       NewOrder(side, SidePrice(flow.bot, side),
                                flow.bot.quantity, 0)]
    /\ flow' = IdleFlow
    /\ UNCHANGED <<escaped, position, bridge, exOrders, history, tasks, locks,
                   lockHolder, notifs, nflows>>

\* bots.py 598-636: either except clause sets bot.status = ERROR, commits and
\* raises HTTPException(500) to the caller
StartFail ==
    /\ flow.kind = "start" /\ flow.pc \in {"config_error", "exchange_error"}
    /\ CanWriteBotStatus(flow.bot, "ERROR")
    /\ dbBot' = WriteBotStatus(dbBot, flow.bot, "ERROR")
    /\ escaped' = escaped \cup {"start_bot"}
    /\ flow' = IdleFlow
    /\ UNCHANGED <<position, bridge, dbOrders, exOrders, history, tasks, locks,
                   lockHolder, notifs, nflows>>

\* The event router with a start request on the bot
NextStart ==
    \/ NextRouter
    \/ StartBegin
    \/ \E outcome \in PlaceOutcomes : StartPlace(outcome)
    \/ StartCommit
    \/ StartFail

SpecStart == Init /\ [][NextStart]_vars

\* start_bot is in the except clause for a configuration error
StartConfigError == flow.kind = "start" /\ flow.pc = "config_error"

\* C29: a configuration error met while the adapter is obtained moves the
\* bot to ERROR and creates no order record.  On the start path the error
\* also reaches the caller.  On the continuation path (a raising placement,
\* of which the configuration error is one case): once the processing of the
\* fill has ended the bot is ERROR and no order was placed for the fill.
C29_ConfigErrorMovesToError ==
    /\ [](\A o \in placeFailed :
            (FillTasksOf(o) = {} /\ dbBot.exists)
               => /\ dbBot.status = "ERROR"
                  /\ OppositesOf(o) = {})
    /\ [][/\ ((flow.kind = "start" /\ flow.pc = "place"
                  /\ flow'.pc = "config_error")
                => (dbOrders' = dbOrders /\ exOrders' = exOrders))
          /\ ((StartConfigError /\ flow' # flow)
                => (/\ dbBot'.status = "ERROR"
                    /\ dbOrders' = dbOrders /\ exOrders' = exOrders
                    /\ "start_bot" \in escaped'))]_vars

\* -------------------------------------------------------- update_bot (C30)
\* the reports of a complete fill with its price and of a cancel
TerminalReports(o) ==
    {r \in PricedReports(o) : r.status = "cancelled" \/ r.fq = Qty}

\* the router handles a report of the exchange about a stored order from
\* entry to return, once no open transaction holds the order's row
RouterDelivers(o) ==
    \E r \in TerminalReports(o), ok \in BOOLEAN :
        /\ RowFree(o)
        /\ Deliver(o, r.status,
                   IF r.status = "filled" THEN r.price ELSE dbOrders[o].price,
                   ok)

\* An update request on the bot, next to an event router whose handlers run
\* one at a time on complete fills and on cancels
NextUpdate ==
    \/ \E o \in OrderIds : ExchangeFillAtLimit(o)
    \/ \E o \in OrderIds : RouterDelivers(o)
    \/ UpdateStart
    \/ UpdateInactive
    \/ \E ok \in BOOLEAN : UpdateCancel(ok)
    \/ \E ok \in BOOLEAN : UpdatePlace(ok)
    \/ UpdateCommit

\* the state after create_bot, or after a stop_bot that followed it (bots.py
\* 641-727): the bot is STOPPED and its first order was cancelled with
\* reason STOP on the exchange and in the store
InitUpdate ==
    \E first \in {"BUY", "SELL"}, stopped \in BOOLEAN :
        LET bot == InitBot(first, FALSE)
            price == SidePrice(bot, first)
        IN  IF stopped
            THEN /\ dbBot = [bot EXCEPT !.status = "STOPPED"]
                 /\ dbOrders = [o \in OrderIds |->
                       IF o = 1
                       THEN [NewOrder(first, price, bot.quantity, 0)
                                EXCEPT !.status = "CANCELLED", !.reason = "STOP"]
                       ELSE NoOrder]
                 /\ exOrders = [o \in OrderIds |->
                       IF o = 1
                       THEN [status |-> "cancelled", side |-> first,
                             price |-> price, fill_price |-> 0]
                       ELSE NoExOrder]
                 /\ oppOf = [o \in OrderIds |-> 0]
                 /\ botAtSubmit = [o \in OrderIds |-> "NONE"]
                 /\ cancelSeen = [o \in OrderIds |->
                                     IF o = 1 THEN "NONE" ELSE "NOCALL"]
                 /\ cancelBy = [o \in OrderIds |->
                                   IF o = 1 THEN "STOP" ELSE "NONE"]
                 /\ placeFailed = {}
                 /\ tasks = [t \in TaskIds |-> IdleTask]
                 /\ flow = IdleFlow
                 /\ locks = {}
                 /\ lockHolder = [o \in OrderIds |-> 0]
                 /\ notifs = 0
                 /\ nflows = 0
                 /\ position = 0
                 /\ bridge = BridgeUp
                 /\ seen = [o \in OrderIds |-> {}]
                 /\ levSent = {}
                 /\ escaped = {}
            ELSE InitState(bot, 0)

SpecUpdate == InitUpdate /\ [][NextUpdate]_vars

\* the orders an update has to cancel: stored PENDING or PARTIALLY_FILLED
Cancellable ==
    {o \in OrderIds : /\ dbOrders[o].exists
                      /\ dbOrders[o].status \in {"PENDING", "PARTIALLY_FILLED"}}

\* the orders the exchange opens in a step
Opened ==
    {n \in OrderIds : exOrders[n].status = "none" /\ exOrders'[n].status # "none"}

\* the stored FILLED orders as the update's transaction sees them
FilledForUpdate ==
    {o \in OrderIds : /\ dbOrders[o].exists /\ dbOrders[o].status = "FILLED"
                      /\ o \notin flow.touched}

\* the side the claim states for the replacement order
ClaimedUpdateSide ==
    IF FilledForUpdate = {} THEN flow.bot.first_order
    ELSE IF dbOrders[SetMax(FilledForUpdate)].side = "BUY" THEN "SELL"
    ELSE "BUY"

StopStartNoAdapter ==
    LET pending == OrdersWithStatus({"PENDING"}) IN
    /\ dbBot.exists
    /\ pending # {}
    /\ StartFlow("stop", "commit", pending)
    /\ UNCHANGED <<escaped, position, bridge, dbBot, dbOrders, exOrders, history,
                   tasks, locks, lockHolder, notifs>>

\* The event router on complete fills and on cancels, with a stop request on
\* the bot
NextStop ==
    \/ \E t \in TaskIds : TaskStep(t)
    \/ \E o \in OrderIds : ExchangeFillAtLimit(o)
    \/ \E o \in OrderIds : \E r \in TerminalReports(o) :
            HandleOrderUpdate(o, r, "delivered")
    \/ StopStart
    \/ StopStartNoAdapter
    \/ \E ok \in BOOLEAN : StopCancel(ok)
    \/ StopCommit

SpecStop == Init /\ [][NextStop]_vars

\* the orders stored as PENDING
StoredPending ==
    {o \in OrderIds : dbOrders[o].exists /\ dbOrders[o].status = "PENDING"}

\* C31: a stop request takes every stored PENDING order of the bot, and when
\* it completes the bot is STOPPED and each of these orders carries the
\* reason STOP, whether the exchange cancelled them, a cancel call failed or
\* no adapter could be created.
C31_StopTagsEveryOrder ==
    [][/\ (flow.kind = "idle" /\ flow'.kind = "stop")
             => flow'.todo \cup flow'.touched = StoredPending
       /\ (flow.kind = "stop" /\ flow'.kind = "stop")
             => flow'.todo \cup flow'.touched = flow.todo \cup flow.touched
       /\ (flow.kind = "stop" /\ flow'.kind = "idle")
             => /\ dbBot'.status = "STOPPED"
                /\ \A o \in flow.todo \cup flow.touched :
                      dbOrders'[o].exists => dbOrders'[o].reason = "STOP"]_vars

\* the processing of a full fill finds the bot not ACTIVE and returns
ReturnsForInactiveBot(t) ==
    /\ tasks[t].kind = "fill" /\ tasks[t].pc = "f_bot"
    /\ dbBot.exists /\ dbBot.status # "ACTIVE"
    /\ tasks'[t] = IdleTask

\* C32: when the processing of a full fill of a stored order returns because
\* the bot is not ACTIVE, the order is committed as FILLED, so that a later
\* duplicate meets the duplicate check.
C32_FillRecordedForInactiveBot ==
    [][\A t \in TaskIds :
         ReturnsForInactiveBot(t)
            => /\ dbOrders'[tasks[t].oid].status = "FILLED"
               /\ AlreadyProcessed(dbOrders'[tasks[t].oid])]_vars

\* the bot's live orders: open on the exchange and stored as PENDING
LiveOrders ==
    {o \in OrderIds : /\ exOrders[o].status = "open"
                      /\ dbOrders[o].exists /\ dbOrders[o].status = "PENDING"}

\* C33: at every moment the bot has at most one live order, whatever the
\* start, update and stop requests and the fill processing do and however
\* they interleave.
C33_AtMostOneLiveOrder == Cardinality(LiveOrders) <= 1

\* -------------------------------------------------------- toggle_bot (C34)
\* bots.py 752-776: toggle_bot reads the bot, flips ACTIVE and STOPPED (any
\* other status becomes ACTIVE) and commits; no order is cancelled or placed
ToggleStatus(status) == IF status = "ACTIVE" THEN "STOPPED" ELSE "ACTIVE"

ToggleBot ==
    /\ dbBot.exists
    /\ flow.kind = "idle" /\ nflows < MaxFlows
    /\ RowFree(BotRow)
    /\ nflows' = nflows + 1
    /\ dbBot' = [dbBot EXCEPT !.status = ToggleStatus(@)]
    /\ UNCHANGED <<escaped, position, bridge, dbOrders, exOrders, history, tasks,
                   flow, locks, lockHolder, notifs>>

\* The event router with a toggle request on the bot
NextToggle ==
    \/ NextRouter
    \/ ToggleBot

SpecToggle == Init /\ [][NextToggle]_vars

\* C34: whenever the bot is ACTIVE and neither a request flow nor the
\* processing of a notification is in progress, one of its orders is stored
\* as PENDING: no toggle and no failed placement leaves an ACTIVE bot
\* without an order.
C34_ActiveBotHasOrder ==
    (/\ dbBot.exists /\ dbBot.status = "ACTIVE"
     /\ flow.kind = "idle"
     /\ \A t \in TaskIds : tasks[t].kind = "idle")
       => StoredPending # {}

\* C35: no order that is still open on the exchange is stored as CANCELLED
\* with the reason of a stop, update or delete request: such a request
\* leaves an order CANCELLED only when its cancel call went through.
C35_CancelledOnlyIfCancelled ==
    \A o \in OrderIds :
        (/\ dbOrders[o].exists
         /\ dbOrders[o].status = "CANCELLED"
         /\ dbOrders[o].reason \in SystemReasons)
           => exOrders[o].status # "open"

\* C36: once the bot has been deleted, none of its orders is open on the
\* exchange, whether it was open before the delete or is placed by a
\* notification processed during or after it.
C36_NothingLiveAfterDelete ==
    (~dbBot.exists) => \A o \in OrderIds : exOrders[o].status # "open"

\* the part of C36 about later placements alone: no order is accepted by the
\* exchange once the bot is gone
C36_NoPlacementAfterDelete ==
    \A o \in OrderIds : botAtSubmit[o] # "DELETED"

\* ---------------------------------------------------------------- C37
\* The locks of process_order_fill taken one at a time: the registry's lock
\* (_locks_lock) is held by the task at "f_registry", and the order's lock is
\* entered from "f_enter" once the registry's lock has been given back.

\* order_monitor.py 59: "async with _locks_lock" enters when no other
\* invocation is inside
RegistryAcquire(t) ==
    /\ tasks[t].kind = "fill" /\ tasks[t].pc = "f_lock"
    /\ \A u \in TaskIds : tasks[u].pc # "f_registry"
    /\ tasks' = [tasks EXCEPT ![t].pc = "f_registry"]
    /\ UNCHANGED <<escaped, position, bridge, dbBot, dbOrders, exOrders, history, flow, locks,
                   lockHolder, notifs, nflows>>

\* order_monitor.py 60-62: get or create the order's lock, leave the registry
RegistryRelease(t) ==
    /\ tasks[t].kind = "fill" /\ tasks[t].pc = "f_registry"
    /\ locks' = locks \cup {tasks[t].oid}
    /\ tasks' = [tasks EXCEPT ![t].pc = "f_enter"]
    /\ UNCHANGED <<escaped, position, bridge, dbBot, dbOrders, exOrders, history, flow, lockHolder,
                   notifs, nflows>>

\* the steps of the background tasks, the fill task with its two locks
LockTaskStep(t) ==
    \/ RegistryAcquire(t)
    \/ RegistryRelease(t)
    \/ FillEnter(t, "f_enter")
    \/ FillReadBot(t)
    \/ \E ok \in BOOLEAN : FillPlace(t, ok)
    \/ FillCommit(t)
    \/ FillCycle(t)
    \/ CancelRead(t)
    \/ CancelSysCommit(t)
    \/ CancelReadBot(t)
    \/ CancelCommit(t)

\* the steps of a stop or delete request that has started
RequestStep ==
    \/ \E ok \in BOOLEAN : StopCancel(ok)
    \/ StopCommit
    \/ \E ok \in BOOLEAN : DeleteCancel(ok)
    \/ DeleteCommit

NextLocks ==
    \/ \E t \in TaskIds : LockTaskStep(t)
    \/ \E o \in OrderIds : ExchangeFillAtLimit(o)
    \/ \E o \in OrderIds : \E r \in TerminalReports(o) :
            HandleOrderUpdate(o, r, "delivered")
    \/ StopStart
    \/ DeleteStart
    \/ RequestStep

\* The event loop runs every task and every request handler that can go on:
\* each call they make returns.
SpecLocks ==
    /\ Init
    /\ [][NextLocks]_vars
    /\ \A t \in TaskIds : WF_vars(LockTaskStep(t))
    /\ WF_vars(RequestStep)

\* task t is inside the section of the lock of order o
InSection(t, o) ==
    /\ tasks[t].kind = "fill" /\ tasks[t].oid = o
    /\ tasks[t].pc \in {"f_bot", "f_place", "f_commit", "f_cycle"}

trading ==
    <<dbBot, dbOrders, exOrders, oppOf, botAtSubmit, cancelSeen, cancelBy,
      placeFailed, tasks, flow, locks, lockHolder, notifs, nflows, position,
      seen, levSent, escaped>>

\* websocket.py 538-540: a UI client opens /ws; manager.connect awaits
\* websocket.accept()
ClientOpen(c) ==
    /\ bridge.pc[c] = "out"
    /\ bridge.sessions < MaxSessions
    /\ bridge' = [bridge EXCEPT !.pc[c] = "accept", !.sessions = @ + 1]
    /\ UNCHANGED trading

\* websocket.py 37-42 and 53-91: after the accept the client joins
\* active_connections; when coindcx_connected is false connect_coindcx makes
\* a new CoinDCXFutures object and awaits its connect_websocket()
ClientAccepted(c) ==
    /\ bridge.pc[c] = "accept"
    /\ IF ~bridge.coindcx_connected
       THEN LET s == bridge.streams + 1 IN
            bridge' = [bridge EXCEPT !.active_connections = @ \cup {c},
                                     !.coindcx_client = s,
                                     !.streams = s,
                                     !.cs[c] = s,
                                     !.pc[c] = "connecting"]
       ELSE bridge' = [bridge EXCEPT !.active_connections = @ \cup {c},
                                     !.pc[c] = "in"]
    /\ UNCHANGED trading

\* websocket.py 91-105: connect_websocket() returns and the flag is set, or it
\* raises and the handler clears the flag; connect() returns either way
ConnectDone(c, ok) ==
    /\ bridge.pc[c] = "connecting"
    /\ bridge' = [bridge EXCEPT !.up = IF ok THEN @ \cup {bridge.cs[c]} ELSE @,
                                !.coindcx_connected = ok,
                                !.failed = @ \/ ~ok,
                                !.cs[c] = 0,
                                !.pc[c] = "in"]
    /\ UNCHANGED trading

\* the disconnect_coindcx tasks not created yet
FreeDisconnects == {d \in DisconnectIds : bridge.disc[d].pc = "none"}

\* websocket.py 575-581 and 44-51: the client goes away; disconnect() takes
\* it out of active_connections and, when it was the last one and there is a
\* CoinDCXFutures object, creates the disconnect_coindcx task
ClientClose(c) ==
    LET rest == bridge.active_connections \ {c}
        last == rest = {} /\ bridge.coindcx_client # 0
    IN  /\ bridge.pc[c] = "in"
        /\ last => FreeDisconnects # {}
        /\ bridge' = [bridge EXCEPT
                        !.active_connections = rest,
                        !.pc[c] = "out",
                        !.disc = IF last
                                 THEN [@ EXCEPT ![SetMin(FreeDisconnects)] =
                                         [pc |-> "scheduled", s |-> 0]]
                                 ELSE @]
        /\ UNCHANGED trading

\* websocket.py 107-111: the task starts; with a CoinDCXFutures object it
\* awaits that object's disconnect_websocket(), without one it ends
DisconnectRun(d) ==
    /\ bridge.disc[d].pc = "scheduled"
    /\ bridge' = [bridge EXCEPT !.disc[d] =
                    IF bridge.coindcx_client # 0
                    THEN [pc |-> "closing", s |-> bridge.coindcx_client]
                    ELSE [pc |-> "done", s |-> 0]]
    /\ UNCHANGED trading

\* websocket.py 111-117: disconnect_websocket() returns (or raises, and the
\* stream may stay up); the finally block forgets the object and clears the
\* flag
DisconnectDone(d, ok) ==
    /\ bridge.disc[d].pc = "closing"
    /\ bridge' = [bridge EXCEPT !.up = IF ok THEN @ \ {bridge.disc[d].s} ELSE @,
                                !.coindcx_client = 0,
                                !.coindcx_connected = FALSE,
                                !.disc[d] = [pc |-> "done", s |-> 0]]
    /\ UNCHANGED trading

NextBridge ==
    \/ \E c \in ClientIds : ClientOpen(c)
    \/ \E c \in ClientIds : ClientAccepted(c)
    \/ \E c \in ClientIds, ok \in BOOLEAN : ConnectDone(c, ok)
    \/ \E c \in ClientIds : ClientClose(c)
    \/ \E d \in DisconnectIds : DisconnectRun(d)
    \/ \E d \in DisconnectIds, ok \in BOOLEAN : DisconnectDone(d, ok)

\* the bridge from its construction, before any UI client
InitBridge ==
    /\ bridge = NewBridge
    /\ \E first \in {"BUY", "SELL"} : InitTrading(InitBot(first, FALSE), 0)

SpecBridge == InitBridge /\ [][NextBridge]_vars

\* the current CoinDCXFutures object's stream is connected on the exchange
StreamConnected ==
    bridge.coindcx_client # 0 /\ bridge.coindcx_client \in bridge.up

\* no connect_coindcx and no disconnect_coindcx is running or waiting to run
NoStreamOperation ==
    /\ \A c \in ClientIds : bridge.pc[c] # "connecting"
    /\ \A d \in DisconnectIds : bridge.disc[d].pc \in {"none", "done"}

\* C38: while a UI client is connected, no connect or disconnect of the
\* exchange stream is running or scheduled, and no connect has failed, the
\* exchange's order-update stream is connected.
C38_ClientsHaveStream ==
    (/\ bridge.active_connections # {}
     /\ NoStreamOperation
     /\ ~bridge.failed)
       => StreamConnected

====
